---- MODULE Spec2Model ----
(***************************************************************************)
(* A model of src/learn_textual/__main__.py: the key-chord remapper        *)
(* (KeyMap, and App.press which drives it), the rclone server supervisor   *)
(* (ControlPanel._run_server, a resumable async generator), the node       *)
(* store of TreeControl (remove, with the framework's add) and the lazy    *)
(* listing of DirectoryTree.                                               *)
(*                                                                         *)
(* The parts do not share state, so each has its own next-state relation   *)
(* and specification: SpecKeys, the key map alone, and SpecApp, the key    *)
(* map behind App.press; SpecServer, with one activation at a time,        *)
(* and SpecSession, with clicks at any time and the end of the session;    *)
(* SpecTree; SpecDirectoryTree.                                            *)
(***************************************************************************)
EXTENDS Naturals, Sequences, FiniteSets

VARIABLES
    \* ---- KeyMap / App.press
    current_sequence,   \* KeyMap._current_sequence: keys pressed so far
    mapping,            \* KeyMap._mapping: a function, source |-> target
    last,               \* the last call on the key map, and whether it raised, or
                        \* the last return of on_event or super().press
    typed,              \* history: the presses since the later of the last press that
                        \* found current_sequence empty and the last bind or unbind
                        \* that returned
    presses,            \* the calls of App.press that have not returned, in the
                        \* order they began, and history: the call that began last,
                        \* returned or not
    \* ---- ControlPanel._run_server
    gen,                \* where the generator _server_runner stands
    server_label,       \* _server_node.label
    rclone_path,        \* _rclone_path_node.data: the cached path, "" until found
    rclone_path_label,  \* _rclone_path_node.label
    procs,              \* per process spawned, in order: how often kill() was called
    steps,              \* history: what the current or last activation did, in order
    server_raised,      \* what the last activation raised to its caller, "" if nothing
    \* ---- TreeControl
    nodes,              \* the keys of TreeControl.nodes
    id,                 \* TreeControl.id: the id given last
    parent,             \* of every node ever added: TreeNode.parent, as an id
    children,           \* of every node ever made: TreeNode.children, as ids
    tree_children,      \* of every node ever made: TreeNode.tree.children, as ids
    tree_last,          \* the last call on the tree, and what it raised
    expanded,           \* of every node ever made: TreeNode.expanded
    listings,           \* history, of every node ever made: how often
                        \* DirectoryTree.handle_tree_click listed its directory
    clicks              \* the calls of DirectoryTree.handle_tree_click that have
                        \* not returned, in the order they began

keyVars == <<current_sequence, mapping, last, typed, presses>>

serverVars ==
    <<gen, server_label, rclone_path, rclone_path_label, procs, steps, server_raised>>

treeVars ==
    <<nodes, id, parent, children, tree_children, tree_last, expanded, listings, clicks>>

vars == <<keyVars, serverVars, treeVars>>

(***************************************************************************)
(* ControlPanel._run_server                                                *)
(*                                                                         *)
(* _run_server is an async generator made once (on_mount) and resumed by   *)
(* asend(None) on every click on the server node (handle_tree_click). gen  *)
(* is the place it stands at: a yield it is suspended at, an await it is   *)
(* waiting in, before its first line, or past its end.                     *)
(***************************************************************************)

\* Most processes spawned.
MaxSpawns == 6

\* What shutil.which("rclone") finds when it finds something.
Paths == {"/usr/bin/rclone", "/opt/rclone"}

\* shutil.which returned None
None == "None"

\* The places an asend resumes at the top of the loop from: before the first
\* line, and the yields of lines 141 and 167.
LoopTop == {"created", "yield_not_found", "yield_stopped"}

\* The generator has ended: an exception left it.
Finished == "finished"

\* What stderr.readline() gives: a line with the marker, another line, b"" at the
\* end of the stream.
Lines == {"marker", "other", "eof"}

LabelNotFound == "Server: Cannot find rclone binary."
LabelStarting == "Server: Starting."
LabelStarted == "Server: Started."
LabelIncompatible == "Server: Started but may be incompatible."
LabelStopping == "Server: Stopping."
LabelStopped == "Server: Stopped."

\* What server_subprocess.kill() raises when the process has exited by itself.
ProcessLookupError == "ProcessLookupError"

\* Entries of steps.
SetLabel(label) == [ev |-> "label", arg |-> label]
Which(found) == [ev |-> "which", arg |-> found]
Spawn(path) == [ev |-> "spawn", arg |-> path]
ReadLine(line) == [ev |-> "readline", arg |-> line]
Kill == [ev |-> "kill", arg |-> ""]

\* server_subprocess.kill(), on the process spawned last
Killed(ps) == [ps EXCEPT ![Len(ps)] = @ + 1]

\* ControlPanel.on_mount: the generator is made, the three nodes are added.
InitServer ==
    /\ gen = "created"
    /\ server_label = "Server: ..."
    /\ rclone_path = ""
    /\ rclone_path_label = <<"rclone path: ", "...">>
    /\ procs = <<>>
    /\ steps = <<>>
    /\ server_raised = ""

\* A locate that goes on to start the server with the path it did not find.
LocateFallsThrough(found) ==
    IF found = None
    THEN /\ server_label' = LabelStarting
         /\ gen' = "await_spawn"
         /\ steps' = <<Which(found), SetLabel(LabelNotFound), SetLabel(LabelStarting)>>
         /\ UNCHANGED <<rclone_path, rclone_path_label>>
    ELSE /\ rclone_path' = found
         /\ rclone_path_label' = <<"rclone path: ", found>>
         /\ server_label' = LabelStarting
         /\ gen' = "await_spawn"
         /\ steps' = <<Which(found), SetLabel(LabelStarting)>>

\* Lines 136-146 with no path cached: shutil.which returns found.
Locate(found) ==
    IF found = None
    THEN /\ server_label' = LabelNotFound
         /\ gen' = "yield_not_found"
         /\ steps' = <<Which(found), SetLabel(LabelNotFound)>>
         /\ UNCHANGED <<rclone_path, rclone_path_label>>
    ELSE /\ rclone_path' = found
         /\ rclone_path_label' = <<"rclone path: ", found>>
         /\ server_label' = LabelStarting
         /\ gen' = "await_spawn"
         /\ steps' = <<Which(found), SetLabel(LabelStarting)>>

\* A start that looks for the binary whether or not a path is cached.
StartAlwaysLocates ==
    /\ gen \in LoopTop
    /\ server_raised' = ""
    /\ UNCHANGED <<procs, keyVars, treeVars>>
    /\ \E found \in Paths \cup {None} :
            /\ found # None => Len(procs) < MaxSpawns
            /\ Locate(found)

\* Lines 134-147, from the top of the loop to the yield of line 141 or into the
\* await of line 147.
Start ==
    /\ gen \in LoopTop
    /\ server_raised' = ""
    /\ UNCHANGED <<procs, keyVars, treeVars>>
    /\ IF rclone_path = ""
       THEN \E found \in Paths \cup {None} :
                /\ found # None => Len(procs) < MaxSpawns
                /\ Locate(found)
       ELSE /\ Len(procs) < MaxSpawns
            /\ server_label' = LabelStarting
            /\ gen' = "await_spawn"
            /\ steps' = <<SetLabel(LabelStarting)>>
            /\ UNCHANGED <<rclone_path, rclone_path_label>>

\* A stop that yields as soon as the process is killed.
StopYieldsEarly ==
    /\ gen = "yield_running"
    /\ steps' = <<SetLabel(LabelStopping), Kill>>
    /\ procs' = Killed(procs)
    /\ server_label' = LabelStopping
    /\ gen' = "yield_stopped"
    /\ server_raised' = ""
    /\ UNCHANGED <<rclone_path, rclone_path_label, keyVars, treeVars>>

\* Lines 161-167, resumed at the yield of line 160: the finally block, then the
\* yield of line 167. kill() raises ProcessLookupError when the process has
\* exited by itself: the exception leaves the generator, which has then ended.
Stop ==
    /\ gen = "yield_running"
    /\ procs' = Killed(procs)
    /\ UNCHANGED <<rclone_path, rclone_path_label, keyVars, treeVars>>
    /\ \E kill_raises \in BOOLEAN :
        IF kill_raises
        THEN /\ steps' = <<SetLabel(LabelStopping), Kill>>
             /\ server_label' = LabelStopping
             /\ gen' = Finished
             /\ server_raised' = ProcessLookupError
        ELSE /\ steps' = <<SetLabel(LabelStopping), Kill, SetLabel(LabelStopped)>>
             /\ server_label' = LabelStopped
             /\ gen' = "yield_stopped"
             /\ server_raised' = ""

\* asend(None) on a generator that has ended raises StopAsyncIteration.
Ended ==
    /\ gen = Finished
    /\ steps' = <<>>
    /\ server_raised' = "StopAsyncIteration"
    /\ UNCHANGED <<gen, server_label, rclone_path, rclone_path_label, procs>>
    /\ UNCHANGED <<keyVars, treeVars>>

\* ControlPanel.handle_tree_click on the server node: asend(None) resumes the
\* generator where it stands.
Activate ==
    \/ Start
    \/ Stop
    \/ Ended

\* asyncio.create_subprocess_exec returns the process.
SpawnReturns ==
    /\ gen = "await_spawn"
    /\ procs' = Append(procs, 0)
    /\ steps' = Append(steps, Spawn(rclone_path))
    /\ gen' = "await_readline"
    /\ UNCHANGED <<server_label, rclone_path, rclone_path_label, server_raised>>
    /\ UNCHANGED <<keyVars, treeVars>>

\* asyncio.create_subprocess_exec raises (line 147 is outside the try): the
\* exception leaves the generator, which has then ended, and asend raises it.
SpawnRaises ==
    /\ gen = "await_spawn"
    /\ gen' = Finished
    /\ server_raised' = "spawn failed"
    /\ UNCHANGED <<server_label, rclone_path, rclone_path_label, procs, steps>>
    /\ UNCHANGED <<keyVars, treeVars>>

\* A read that takes the end of the stream for a failure.
ReadLineReturnsEofFails(line) ==
    /\ gen = "await_readline"
    /\ UNCHANGED <<rclone_path, rclone_path_label>>
    /\ UNCHANGED <<keyVars, treeVars>>
    /\ IF line = "eof"
       THEN /\ server_label' = LabelStopping
            /\ procs' = Killed(procs)
            /\ steps' = steps \o <<ReadLine(line), SetLabel(LabelStopping), Kill>>
            /\ gen' = Finished
            /\ server_raised' = "readline failed"
       ELSE /\ server_label' = IF line = "marker" THEN LabelStarted ELSE LabelIncompatible
            /\ steps' = steps \o <<ReadLine(line), SetLabel(server_label')>>
            /\ gen' = "yield_running"
            /\ UNCHANGED <<procs, server_raised>>

\* stderr.readline() returns line: lines 154-160.
ReadLineReturns(line) ==
    /\ gen = "await_readline"
    /\ server_label' = IF line = "marker" THEN LabelStarted ELSE LabelIncompatible
    /\ steps' = steps \o <<ReadLine(line), SetLabel(server_label')>>
    /\ gen' = "yield_running"
    /\ UNCHANGED <<rclone_path, rclone_path_label, procs, server_raised>>
    /\ UNCHANGED <<keyVars, treeVars>>

\* A failed read with no finally block around it.
ReadLineRaisesUnkilled ==
    /\ gen = "await_readline"
    /\ gen' = Finished
    /\ server_raised' = "readline failed"
    /\ UNCHANGED <<server_label, rclone_path, rclone_path_label, procs, steps>>
    /\ UNCHANGED <<keyVars, treeVars>>

\* stderr.readline() raises: the finally block of lines 161-164 runs, then the
\* exception leaves the generator, which has then ended, and asend raises it, or
\* the ProcessLookupError of a kill() that raises.
ReadLineRaises ==
    /\ gen = "await_readline"
    /\ server_label' = LabelStopping
    /\ procs' = Killed(procs)
    /\ steps' = steps \o <<SetLabel(LabelStopping), Kill>>
    /\ gen' = Finished
    /\ server_raised' \in {"readline failed", ProcessLookupError}
    /\ UNCHANGED <<rclone_path, rclone_path_label>>
    /\ UNCHANGED <<keyVars, treeVars>>

NextServer ==
    \/ Activate
    \/ SpawnReturns
    \/ SpawnRaises
    \/ \E line \in Lines : ReadLineReturns(line)
    \/ ReadLineRaises

\* The awaits of lines 147 and 153: the asend that resumed the generator has not
\* returned.
InFlight == {"await_spawn", "await_readline"}

\* The process spawned last is held by the generator: from the return of
\* line 147 to the finally block of lines 161-164.
Holding == {"await_readline", "yield_running"}

\* A click that runs the body once more while the earlier run waits.
ReenterRestarts ==
    /\ gen \in InFlight
    /\ Len(procs) < MaxSpawns
    /\ procs' = Append(procs, 0)
    /\ steps' = <<SetLabel(LabelStarting), Spawn(rclone_path)>>
    /\ gen' = "await_readline"
    /\ server_raised' = ""
    /\ UNCHANGED <<server_label, rclone_path, rclone_path_label>>
    /\ UNCHANGED <<keyVars, treeVars>>

\* ControlPanel.handle_tree_click on the server node while an earlier asend waits
\* in an await: asend on an async generator that is running raises RuntimeError
\* and does not resume it.
Reenter ==
    /\ gen \in InFlight
    /\ server_raised' = "RuntimeError"
    /\ UNCHANGED <<gen, server_label, rclone_path, rclone_path_label, procs, steps>>
    /\ UNCHANGED <<keyVars, treeVars>>

\* The end of the session: the event loop closes the generator where it is
\* suspended. GeneratorExit is raised at the yield; at the yield of line 160 the
\* finally block of lines 161-164 runs, and aclose raises what kill() raises.
Close ==
    /\ gen \in LoopTop \cup {"yield_running"}
    /\ gen' = Finished
    /\ IF gen = "yield_running"
       THEN /\ server_label' = LabelStopping
            /\ procs' = Killed(procs)
            /\ steps' = <<SetLabel(LabelStopping), Kill>>
            /\ server_raised' \in {"", ProcessLookupError}
       ELSE /\ steps' = <<>>
            /\ server_raised' = ""
            /\ UNCHANGED <<server_label, procs>>
    /\ UNCHANGED <<rclone_path, rclone_path_label>>
    /\ UNCHANGED <<keyVars, treeVars>>

\* The supervisor with clicks that arrive at any time and the end of the session.
NextSession ==
    \/ NextServer
    \/ Reenter
    \/ Close

(***************************************************************************)
(* TreeControl                                                             *)
(*                                                                         *)
(* A TreeNode lives on after it has left TreeControl.nodes, held by its    *)
(* children's parent fields: parent, children and tree_children are kept   *)
(* for every node ever made, nodes holds the ids still in the dict.        *)
(***************************************************************************)

\* Most nodes added to a tree.
MaxNodes == 4

\* self.root.id
RootId == 0

\* The ids add and remove are called with: those a tree can hold and one more.
NodeIds == 0..(MaxNodes + 1)

TreeCall(op, arg, raised) == [op |-> op, arg |-> arg, raised |-> raised]

\* x in list
Contains(list, x) == \E i \in 1..Len(list) : list[i] = x

\* list.remove(x): the list without its first x
RECURSIVE ListRemove(_, _)
ListRemove(list, x) ==
    IF list = <<>>
    THEN <<>>
    ELSE IF Head(list) = x
         THEN Tail(list)
         ELSE <<Head(list)>> \o ListRemove(Tail(list), x)

\* TreeControl.__init__: the root alone, with id 0.
InitTree ==
    /\ nodes = {RootId}
    /\ id = RootId
    /\ parent = <<>>
    /\ children = [n \in {RootId} |-> <<>>]
    /\ tree_children = [n \in {RootId} |-> <<>>]
    /\ tree_last = TreeCall("init", RootId, "")
    /\ expanded = [n \in {RootId} |-> FALSE]
    /\ listings = [n \in {RootId} |-> 0]
    /\ clicks = <<>>

\* TreeControl.add(node_id, label, data), of the framework: KeyError for a parent
\* that is not in nodes, else the next id is given to a node appended to the
\* parent's children.
Add(node_id) ==
    /\ UNCHANGED <<keyVars, serverVars>>
    /\ UNCHANGED clicks
    /\ IF node_id \notin nodes
       THEN /\ tree_last' = TreeCall("add", node_id, "KeyError")
            /\ UNCHANGED <<nodes, id, parent, children, tree_children>>
            /\ UNCHANGED <<expanded, listings>>
       ELSE /\ id < MaxNodes
            /\ id' = id + 1
            /\ nodes' = nodes \cup {id'}
            /\ parent' = Append(parent, node_id)
            /\ children' = [n \in (DOMAIN children) \cup {id'} |->
                               IF n = id' THEN <<>>
                               ELSE IF n = node_id THEN Append(children[n], id')
                               ELSE children[n]]
            /\ tree_children' = [n \in (DOMAIN tree_children) \cup {id'} |->
                                    IF n = id' THEN <<>>
                                    ELSE IF n = node_id THEN Append(tree_children[n], id')
                                    ELSE tree_children[n]]
            /\ expanded' = [n \in (DOMAIN expanded) \cup {id'} |->
                               IF n = id' THEN FALSE ELSE expanded[n]]
            /\ listings' = [n \in (DOMAIN listings) \cup {id'} |->
                               IF n = id' THEN 0 ELSE listings[n]]
            /\ tree_last' = TreeCall("add", node_id, "")

\* A remove that leaves the rendering tree as it is.
RemoveKeepsTree(node_id) ==
    /\ UNCHANGED <<keyVars, serverVars>>
    /\ UNCHANGED <<expanded, listings, clicks>>
    /\ IF node_id = RootId
       THEN /\ tree_last' = TreeCall("remove", node_id, "AssertionError")
            /\ UNCHANGED <<nodes, id, parent, children, tree_children>>
       ELSE IF node_id \notin nodes
       THEN /\ tree_last' = TreeCall("remove", node_id, "KeyError")
            /\ UNCHANGED <<nodes, id, parent, children, tree_children>>
       ELSE /\ nodes' = nodes \ {node_id}
            /\ UNCHANGED <<id, parent>>
            /\ children' = [children EXCEPT ![parent[node_id]] = ListRemove(@, node_id)]
            /\ UNCHANGED tree_children
            /\ tree_last' = TreeCall("remove", node_id, "")

\* A remove that leaves the node among its parent's children.
RemoveKeepsChild(node_id) ==
    /\ UNCHANGED <<keyVars, serverVars>>
    /\ UNCHANGED <<expanded, listings, clicks>>
    /\ IF node_id = RootId
       THEN /\ tree_last' = TreeCall("remove", node_id, "AssertionError")
            /\ UNCHANGED <<nodes, id, parent, children, tree_children>>
       ELSE IF node_id \notin nodes
       THEN /\ tree_last' = TreeCall("remove", node_id, "KeyError")
            /\ UNCHANGED <<nodes, id, parent, children, tree_children>>
       ELSE /\ nodes' = nodes \ {node_id}
            /\ UNCHANGED <<id, parent>>
            /\ UNCHANGED children
            /\ tree_children' = [tree_children EXCEPT ![parent[node_id]] = ListRemove(@, node_id)]
            /\ tree_last' = TreeCall("remove", node_id, "")

\* A remove that takes the children of the node out of nodes with it.
RemoveCascades(node_id) ==
    /\ UNCHANGED <<keyVars, serverVars>>
    /\ UNCHANGED <<expanded, listings, clicks>>
    /\ IF node_id = RootId
       THEN /\ tree_last' = TreeCall("remove", node_id, "AssertionError")
            /\ UNCHANGED <<nodes, id, parent, children, tree_children>>
       ELSE IF node_id \notin nodes
       THEN /\ tree_last' = TreeCall("remove", node_id, "KeyError")
            /\ UNCHANGED <<nodes, id, parent, children, tree_children>>
       ELSE /\ nodes' = nodes \ ({node_id} \cup {children[node_id][i] : i \in 1..Len(children[node_id])})
            /\ UNCHANGED <<id, parent>>
            /\ children' = [children EXCEPT ![parent[node_id]] = ListRemove(@, node_id)]
            /\ tree_children' = [tree_children EXCEPT ![parent[node_id]] = ListRemove(@, node_id)]
            /\ tree_last' = TreeCall("remove", node_id, "")

\* A remove that pops the node before it looks at what it is.
RemovePopsFirst(node_id) ==
    /\ UNCHANGED <<keyVars, serverVars>>
    /\ UNCHANGED <<expanded, listings, clicks>>
    /\ IF node_id \notin nodes
       THEN /\ tree_last' = TreeCall("remove", node_id, "KeyError")
            /\ UNCHANGED <<nodes, id, parent, children, tree_children>>
       ELSE /\ nodes' = nodes \ {node_id}
            /\ UNCHANGED <<id, parent>>
            /\ IF node_id = RootId
               THEN /\ tree_last' = TreeCall("remove", node_id, "AssertionError")
                    /\ UNCHANGED <<children, tree_children>>
               ELSE /\ children' =
                        [children EXCEPT ![parent[node_id]] = ListRemove(@, node_id)]
                    /\ tree_children' =
                        [tree_children EXCEPT ![parent[node_id]] = ListRemove(@, node_id)]
                    /\ tree_last' = TreeCall("remove", node_id, "")

\* TreeControl.remove(node_id)
Remove(node_id) ==
    /\ UNCHANGED <<keyVars, serverVars>>
    /\ UNCHANGED <<expanded, listings, clicks>>
    /\ IF node_id = RootId
       THEN \* assert node_id != self.root.id
            /\ tree_last' = TreeCall("remove", node_id, "AssertionError")
            /\ UNCHANGED <<nodes, id, parent, children, tree_children>>
       ELSE IF node_id \notin nodes
       THEN \* self.nodes.pop(node_id)
            /\ tree_last' = TreeCall("remove", node_id, "KeyError")
            /\ UNCHANGED <<nodes, id, parent, children, tree_children>>
       ELSE LET p == parent[node_id]
            IN  /\ nodes' = nodes \ {node_id}
                /\ UNCHANGED <<id, parent>>
                /\ IF ~Contains(children[p], node_id)
                   THEN \* parent.children.remove(node)
                        /\ tree_last' = TreeCall("remove", node_id, "ValueError")
                        /\ UNCHANGED <<children, tree_children>>
                   ELSE /\ children' = [children EXCEPT ![p] = ListRemove(@, node_id)]
                        /\ IF ~Contains(tree_children[p], node_id)
                           THEN \* parent.tree.children.remove(node.tree)
                                /\ tree_last' = TreeCall("remove", node_id, "ValueError")
                                /\ UNCHANGED tree_children
                           ELSE /\ tree_children' =
                                    [tree_children EXCEPT ![p] = ListRemove(@, node_id)]
                                /\ tree_last' = TreeCall("remove", node_id, "")

NextTree ==
    \/ \E node_id \in NodeIds : Add(node_id)
    \/ \E node_id \in NodeIds : Remove(node_id)

(***************************************************************************)
(* DirectoryTree                                                           *)
(***************************************************************************)

\* Most nodes added to a directory tree.
MaxDirectoryNodes == 3

\* Most entries a directory lists.
MaxEntries == 2

\* Most listings of one directory.
MaxListings == 2

\* Most calls of handle_tree_click that have not returned.
MaxClicks == 2

\* TreeNode.add(label, data), of the framework, called count times on node: the
\* ids given and the lists after it.
NewIds(count) == (id + 1)..(id + count)

Grown(lists, node, count) ==
    [n \in (DOMAIN lists) \cup NewIds(count) |->
        IF n \in NewIds(count) THEN <<>>
        ELSE IF n = node THEN lists[n] \o [i \in 1..count |-> id + i]
        ELSE lists[n]]

\* The calls of node.add the clicks in flight have still to make.
RECURSIVE Todo(_)
Todo(calls) == IF calls = <<>> THEN 0 ELSE Head(calls).todo + Todo(Tail(calls))

\* calls without the i-th.
Without(calls, i) == SubSeq(calls, 1, i - 1) \o SubSeq(calls, i + 1, Len(calls))

\* DirectoryTree.handle_tree_click on a click on node, lines 95-103 up to the first
\* await: is_dir is what hovered_path.is_dir() returns, denied whether
\* hovered_path.iterdir() raises PermissionError, entries the number of paths it
\* gives. The call goes on to its first node.add, or to the node.toggle() of
\* TreeControl.handle_tree_click (line 70), or returns.
ClickBegins(node, is_dir, denied, entries) ==
    /\ node \in DOMAIN children
    /\ Len(clicks) < MaxClicks
    /\ UNCHANGED <<keyVars, serverVars>>
    /\ UNCHANGED <<nodes, id, parent, children, tree_children, expanded>>
    /\ IF children[node] = <<>> /\ is_dir
       THEN IF denied
            THEN /\ tree_last' = TreeCall("click", node, "PermissionError")
                 /\ UNCHANGED <<listings, clicks>>
            ELSE /\ listings[node] < MaxListings
                 /\ id + Todo(clicks) + entries <= MaxDirectoryNodes
                 /\ listings' = [listings EXCEPT ![node] = @ + 1]
                 /\ IF entries = 0
                    THEN /\ tree_last' = TreeCall("click", node, "")
                         /\ UNCHANGED clicks
                    ELSE /\ clicks' = Append(clicks, [node |-> node, todo |-> entries,
                                                      at |-> "add"])
                         /\ tree_last' = TreeCall("clicking", node, "")
       ELSE /\ UNCHANGED listings
            /\ IF children[node] # <<>>
               THEN /\ clicks' = Append(clicks, [node |-> node, todo |-> 0,
                                                 at |-> "toggle"])
                    /\ tree_last' = TreeCall("clicking", node, "")
               ELSE /\ tree_last' = TreeCall("click", node, "")
                    /\ UNCHANGED clicks

\* The await of node.add(label=path.name, data=path), line 102, of the i-th click in
\* flight: the add of the framework, KeyError for a node that is not in nodes; after
\* the last add the node has children and the call goes on to node.toggle().
ClickAdds(i) ==
    /\ i \in 1..Len(clicks)
    /\ clicks[i].at = "add"
    /\ UNCHANGED <<keyVars, serverVars>>
    /\ LET node == clicks[i].node
       IN  IF node \notin nodes
           THEN /\ clicks' = Without(clicks, i)
                /\ tree_last' = TreeCall("click", node, "KeyError")
                /\ UNCHANGED <<nodes, id, parent, children, tree_children>>
                /\ UNCHANGED <<expanded, listings>>
           ELSE /\ id' = id + 1
                /\ nodes' = nodes \cup {id'}
                /\ parent' = Append(parent, node)
                /\ children' = Grown(children, node, 1)
                /\ tree_children' = Grown(tree_children, node, 1)
                /\ expanded' = [n \in (DOMAIN expanded) \cup {id'} |->
                                   IF n = id' THEN FALSE ELSE expanded[n]]
                /\ listings' = [n \in (DOMAIN listings) \cup {id'} |->
                                   IF n = id' THEN 0 ELSE listings[n]]
                /\ clicks' = [clicks EXCEPT ![i] =
                                [node |-> node,
                                 todo |-> @.todo - 1,
                                 at |-> IF @.todo = 1 THEN "toggle" ELSE "add"]]
                /\ tree_last' = TreeCall("clicking", node, "")

\* The await of node.toggle(), line 70, of the i-th click in flight: the toggle of
\* the framework flips expanded, and the call returns.
ClickToggles(i) ==
    /\ i \in 1..Len(clicks)
    /\ clicks[i].at = "toggle"
    /\ expanded' = [expanded EXCEPT ![clicks[i].node] = ~@]
    /\ clicks' = Without(clicks, i)
    /\ tree_last' = TreeCall("click", clicks[i].node, "")
    /\ UNCHANGED <<nodes, id, parent, children, tree_children, listings>>
    /\ UNCHANGED <<keyVars, serverVars>>

\* A DirectoryTree clicked on, with nodes removed from it.
NextDirectoryTree ==
    \/ \E node \in NodeIds, is_dir \in BOOLEAN, denied \in BOOLEAN,
            entries \in 0..MaxEntries :
            ClickBegins(node, is_dir, denied, entries)
    \/ \E i \in 1..MaxClicks : ClickAdds(i)
    \/ \E i \in 1..MaxClicks : ClickToggles(i)
    \/ \E node_id \in NodeIds : Remove(node_id)

(***************************************************************************)
(* Key sequences                                                           *)
(***************************************************************************)

\* Longest source sequence that is bound.
MaxSeqLen == 2

\* Most entries the mapping holds.
MaxBindings == 2

\* Keys that are pressed and that sources are made of.
Keys == {"Z", "a"}

\* KeySequence = tuple[Key, ...]: the sources bind and unbind are called with.
Sources == UNION {[1..n -> Keys] : n \in 0..MaxSeqLen}

\* The targets bind is called with.
Targets == {<<"q">>, <<"a", "q">>}

\* source[:current_length] == current_sequence
IsPrefix(p, s) == Len(p) <= Len(s) /\ SubSeq(s, 1, Len(p)) = p

IsProperPrefix(p, s) == IsPrefix(p, s) /\ Len(p) < Len(s)

\* KeyMap.press returns bool | KeySequence; the two cases of that union.
Matched(target) == [kind |-> "matched", target |-> target, continuing |-> FALSE]

Pending(can_continue) == [kind |-> "pending", target |-> <<>>, continuing |-> can_continue]

\* A press that leaves the buffer as it is once the sequence has matched.
KeyMap_press_keeps_match(map, cur, key) ==
    LET current == Append(cur, key)
    IN  IF current \in DOMAIN map
        THEN [ret |-> Matched(map[current]), seq |-> current]
        ELSE LET can_continue == \E source \in DOMAIN map : IsPrefix(current, source)
             IN  [ret |-> Pending(can_continue),
                  seq |-> IF can_continue THEN current ELSE <<>>]

\* A press that keeps the failing key as the start of the next chord.
KeyMap_press_keeps_key(map, cur, key) ==
    LET current == Append(cur, key)
    IN  IF current \in DOMAIN map
        THEN [ret |-> Matched(map[current]), seq |-> <<>>]
        ELSE LET can_continue == \E source \in DOMAIN map : IsPrefix(current, source)
             IN  [ret |-> Pending(can_continue),
                  seq |-> IF can_continue THEN current ELSE <<key>>]

\* A press that tests for a longer binding before the exact match.
KeyMap_press_longest(map, cur, key) ==
    LET current == Append(cur, key)
        can_continue == \E source \in DOMAIN map : IsProperPrefix(current, source)
    IN  IF can_continue
        THEN [ret |-> Pending(TRUE), seq |-> current]
        ELSE IF current \in DOMAIN map
             THEN [ret |-> Matched(map[current]), seq |-> <<>>]
             ELSE [ret |-> Pending(FALSE), seq |-> <<>>]

\* A press that keeps the keys no source begins with.
KeyMap_press_keeps_failed(map, cur, key) ==
    LET current == Append(cur, key)
    IN  IF current \in DOMAIN map
        THEN [ret |-> Matched(map[current]), seq |-> <<>>]
        ELSE LET can_continue == \E source \in DOMAIN map : IsPrefix(current, source)
             IN  [ret |-> Pending(can_continue), seq |-> current]

\* KeyMap.press(key), from the mapping and the buffer: what it returns (ret) and
\* the buffer it leaves (seq).
KeyMap_press(map, cur, key) ==
    LET current == Append(cur, key)
    IN  IF current \in DOMAIN map
        THEN [ret |-> Matched(map[current]), seq |-> <<>>]
        ELSE LET can_continue == \E source \in DOMAIN map : IsPrefix(current, source)
             IN  [ret |-> Pending(can_continue),
                  seq |-> IF can_continue THEN current ELSE <<>>]

(***************************************************************************)
(* KeyMap.bind, KeyMap.unbind                                              *)
(***************************************************************************)

\* The record of a call that returned: op names it, source and target are the
\* arguments of a bind or an unbind.
Returned(op, source, target) ==
    [op |-> op, source |-> source, target |-> target, raised |-> FALSE]

\* The record of a call that raised, which changed nothing whatever its arguments.
Raised(op) == [op |-> op, source |-> <<>>, target |-> <<>>, raised |-> TRUE]

\* self._mapping[source] = target
SetItem(map, source, target) ==
    [s \in (DOMAIN map) \cup {source} |-> IF s = source THEN target ELSE map[s]]

\* del self._mapping[source], the KeyError passed over
DelItem(map, source) == [s \in (DOMAIN map) \ {source} |-> map[s]]

\* A bind without the assertion.
BindUnasserted(source, target) ==
    /\ Cardinality((DOMAIN mapping) \cup {source}) <= MaxBindings
    /\ mapping' = SetItem(mapping, source, target)
    /\ typed' = <<>>
    /\ last' = Returned("bind", source, target)
    /\ UNCHANGED <<current_sequence, presses, serverVars, treeVars>>

\* KeyMap.bind(source, target)
Bind(source, target) ==
    IF current_sequence # <<>>
    THEN \* AssertionError: "Cannot bind while handling key map."
         /\ last' = Raised("bind")
         /\ UNCHANGED <<current_sequence, mapping, typed, presses, serverVars, treeVars>>
    ELSE /\ Cardinality((DOMAIN mapping) \cup {source}) <= MaxBindings
         /\ mapping' = SetItem(mapping, source, target)
         /\ typed' = <<>>
         /\ last' = Returned("bind", source, target)
         /\ UNCHANGED <<current_sequence, presses, serverVars, treeVars>>

\* KeyMap.unbind(source)
Unbind(source) ==
    IF current_sequence # <<>>
    THEN \* AssertionError: "Cannot unbind while handling key map."
         /\ last' = Raised("unbind")
         /\ UNCHANGED <<current_sequence, mapping, typed, presses, serverVars, treeVars>>
    ELSE /\ mapping' = DelItem(mapping, source)
         /\ typed' = <<>>
         /\ last' = Returned("unbind", source, <<>>)
         /\ UNCHANGED <<current_sequence, presses, serverVars, treeVars>>

\* KeyMap.press(key), called on the key map.
Press(key) ==
    LET r == KeyMap_press(mapping, current_sequence, key)
        entry == [key |-> key, ret |-> r.ret]
    IN  /\ current_sequence' = r.seq
        /\ typed' = IF current_sequence = <<>> THEN <<entry>> ELSE Append(typed, entry)
        /\ last' = Returned("press", <<>>, <<>>)
        /\ UNCHANGED <<mapping, presses, serverVars, treeVars>>

(***************************************************************************)
(* App.press                                                               *)
(*                                                                         *)
(* App.press gives way at each await: in self.on_event(event), once for    *)
(* each key of the target it feeds, and in super().press(key). Whatever    *)
(* runs meanwhile (a handler of the event, another task) may call bind,    *)
(* unbind and App.press.                                                   *)
(***************************************************************************)

\* Most calls of App.press that have not returned.
MaxInFlight == 2

\* An App.press that hands every key that did not complete a chord to the default
\* bindings.
App_press_bleeds(map, cur, key) ==
    LET r == KeyMap_press(map, cur, key)
    IN  [seq  |-> r.seq,
         call |-> [key    |-> key,
                   ret    |-> r.ret,
                   events |-> <<>>,
                   fell   |-> r.ret.kind = "pending",
                   at     |-> IF r.ret.kind = "matched" /\ r.ret.target # <<>>
                              THEN "on_event"
                              ELSE IF r.ret.kind = "pending" THEN "super"
                              ELSE "returned"]]

\* App.press(key) up to its first await, lines 220-228: the buffer KeyMap.press
\* leaves (seq) and the call: what KeyMap.press returned (ret), the events that
\* have come back from on_event (events), whether super().press(key) was called
\* (fell), and where the call waits (at): in on_event with the next key of the
\* target, in super().press, or nowhere, having returned.
App_press(map, cur, key) ==
    LET r == KeyMap_press(map, cur, key)
    IN  [seq  |-> r.seq,
         call |-> [key    |-> key,
                   ret    |-> r.ret,
                   events |-> <<>>,
                   fell   |-> r.ret.kind = "pending" /\ ~r.ret.continuing,
                   at     |-> IF r.ret.kind = "matched" /\ r.ret.target # <<>>
                              THEN "on_event"
                              ELSE IF r.ret.kind = "pending" /\ ~r.ret.continuing
                                   THEN "super"
                              ELSE "returned"]]

\* Lines 224-226, when on_event returns to call with the event's _stop_propagation
\* as stopped: the loop breaks after an event that comes back without it, else it
\* goes on to the next key of the target, if there is one.
Fed(call, stopped) ==
    LET events == Append(call.events,
                         [key |-> call.ret.target[Len(call.events) + 1],
                          stopped |-> stopped])
    IN  [call EXCEPT !.events = events,
                     !.at = IF stopped /\ Len(events) < Len(call.ret.target)
                            THEN "on_event"
                            ELSE "returned"]

\* The calls among calls that have not returned.
InFlightPresses == SelectSeq(presses, LAMBDA call : call.at # "returned")

\* calls without those that have returned, but for the last.
Forget(calls) ==
    LET n == Len(calls)
        kept == SelectSeq(SubSeq(calls, 1, n - 1), LAMBDA call : call.at # "returned")
    IN  IF n = 0 THEN <<>> ELSE Append(kept, calls[n])

\* A key event reaches App.press, which runs to its first await or to its return.
AppPress(key) ==
    LET p == App_press(mapping, current_sequence, key)
        entry == [key |-> key, ret |-> p.call.ret]
    IN  /\ Len(InFlightPresses) < MaxInFlight
        /\ current_sequence' = p.seq
        /\ typed' = IF current_sequence = <<>> THEN <<entry>> ELSE Append(typed, entry)
        /\ presses' = Append(InFlightPresses, p.call)
        /\ last' = Returned("press", <<>>, <<>>)
        /\ UNCHANGED <<mapping, serverVars, treeVars>>

\* self.on_event(event) returns to the i-th call, line 224.
OnEventReturns(i, stopped) ==
    /\ i \in 1..Len(presses)
    /\ presses[i].at = "on_event"
    /\ presses' = Forget([presses EXCEPT ![i] = Fed(@, stopped)])
    /\ last' = Returned("on_event", <<>>, <<>>)
    /\ UNCHANGED <<current_sequence, mapping, typed, serverVars, treeVars>>

\* super().press(key) returns to the i-th call, line 228.
SuperPressReturns(i) ==
    /\ i \in 1..Len(presses)
    /\ presses[i].at = "super"
    /\ presses' = Forget([presses EXCEPT ![i].at = "returned"])
    /\ last' = Returned("super", <<>>, <<>>)
    /\ UNCHANGED <<current_sequence, mapping, typed, serverVars, treeVars>>

(***************************************************************************)
(* The key map's specification                                             *)
(***************************************************************************)

\* KeyMap.__init__
InitKeys ==
    /\ current_sequence = <<>>
    /\ mapping = [s \in {} |-> <<>>]
    /\ last = Returned("init", <<>>, <<>>)
    /\ typed = <<>>
    /\ presses = <<>>

\* The key map, called in any order.
NextKeys ==
    \/ \E source \in Sources, target \in Targets : Bind(source, target)
    \/ \E source \in Sources : Unbind(source)
    \/ \E key \in Keys : Press(key)

\* The key map behind App.press: keys arrive, on_event and super().press return,
\* bind and unbind are called, in any order.
NextApp ==
    \/ \E source \in Sources, target \in Targets : Bind(source, target)
    \/ \E source \in Sources : Unbind(source)
    \/ \E key \in Keys : AppPress(key)
    \/ \E i \in 1..MaxInFlight, stopped \in BOOLEAN : OnEventReturns(i, stopped)
    \/ \E i \in 1..MaxInFlight : SuperPressReturns(i)

(***************************************************************************)
(* Properties of the key map                                               *)
(***************************************************************************)

\* The keys of the presses in the history. While the buffer is not empty they are
\* the buffer; after a press that emptied it they are what that press looked up.
KeysOf(history) == [i \in 1..Len(history) |-> history[i].key]

NoBoundProperPrefix(s) ==
    \A p \in DOMAIN mapping : ~(p # <<>> /\ IsProperPrefix(p, s))

\* What a key map that has seen no key returns for key under the mapping.
FreshReturn(key) ==
    IF <<key>> \in DOMAIN mapping
    THEN Matched(mapping[<<key>>])
    ELSE Pending(\E s \in DOMAIN mapping : Len(s) >= 1 /\ s[1] = key)

\* The history is the history of presses, from an empty buffer, of the first keys
\* of s.
Typing(s) == typed # <<>> /\ IsPrefix(KeysOf(typed), s)

\* C1: for a bound source s of at least two keys, no proper non-empty prefix of
\* which is bound, the keys of s pressed in order from an empty buffer return
\* "pending, can continue" for each key but the last and the target of s for the
\* last; that press leaves the buffer empty, and a press that finds the buffer
\* empty returns what a key map that has seen no key returns.
C1_ChordMatchesOnLastKey ==
    /\ \A s \in DOMAIN mapping :
        (Len(s) >= 2 /\ NoBoundProperPrefix(s) /\ Typing(s)) =>
            /\ \A i \in 1..Len(typed) : i < Len(s) => typed[i].ret = Pending(TRUE)
            /\ Len(typed) < Len(s) => current_sequence = KeysOf(typed)
            /\ Len(typed) = Len(s) =>
                /\ typed[Len(s)].ret = Matched(mapping[s])
                /\ current_sequence = <<>>
    /\ Len(typed) = 1 => typed[1].ret = FreshReturn(typed[1].key)

\* The binding of App.on_mount has been typed: "Z" returned True, "Z" returned ("q",).
C1_Witness ==
    /\ <<"Z", "Z">> \in DOMAIN mapping
    /\ mapping[<<"Z", "Z">>] = <<"q">>
    /\ NoBoundProperPrefix(<<"Z", "Z">>)
    /\ KeysOf(typed) = <<"Z", "Z">>
    /\ typed[1].ret = Pending(TRUE)
    /\ typed[2].ret = Matched(<<"q">>)
    /\ current_sequence = <<>>

\* The keys looked up by the last press are no bound source and no strict prefix
\* of one.
LastPressFailed ==
    /\ typed # <<>>
    /\ KeysOf(typed) \notin DOMAIN mapping
    /\ ~\E s \in DOMAIN mapping : IsProperPrefix(KeysOf(typed), s)

\* C2: when the buffer plus the pressed key is neither a bound source nor a strict
\* prefix of one, press returns False and leaves the buffer empty (neither the
\* buffered keys nor the failing key are kept, no key is looked up again),
\* and the press after it starts from an empty buffer and returns what a key map
\* that has seen no key returns.
C2_FailedChordIsDropped ==
    /\ [](LastPressFailed =>
            /\ typed[Len(typed)].ret = Pending(FALSE)
            /\ current_sequence = <<>>)
    /\ [][(LastPressFailed /\ last'.op = "press") =>
            /\ Len(typed') = 1
            /\ typed'[1].ret = FreshReturn(typed'[1].key)]_vars

\* "Z" was buffered for a longer source and the next key failed the chord.
C2_Witness ==
    /\ LastPressFailed
    /\ Len(typed) = 2
    /\ typed[1].ret = Pending(TRUE)
    /\ typed[2].ret = Pending(FALSE)

\* C3: for bound sources p and s, p a non-empty proper prefix of s, the buffer never
\* holds p or more of s, no press ever looks up s (so none returns it as matched),
\* and the press that completes p returns the target of p and leaves the buffer
\* empty.
C3_ExactMatchPreempts ==
    \A p \in DOMAIN mapping, s \in DOMAIN mapping :
        (p # <<>> /\ IsProperPrefix(p, s)) =>
            /\ ~IsPrefix(p, current_sequence)
            /\ ~IsPrefix(s, KeysOf(typed))
            /\ KeysOf(typed) = p =>
                /\ typed[Len(p)].ret = Matched(mapping[p])
                /\ current_sequence = <<>>

\* A source and a longer one that starts with it are bound, and the shorter one has
\* just been completed.
C3_Witness ==
    \E p \in DOMAIN mapping, s \in DOMAIN mapping :
        /\ p # <<>>
        /\ IsProperPrefix(p, s)
        /\ mapping[p] # mapping[s]
        /\ KeysOf(typed) = p
        /\ typed[Len(p)].ret = Matched(mapping[p])

\* C4: bind and unbind raise whenever the buffer is not empty, and then leave the
\* mapping and the buffer as they were; with an empty buffer bind(source, target)
\* maps source to target and changes no other entry, and unbind(source) removes the
\* entry of source, or changes nothing when there is none, without raising.
C4_BindUnbindPrecondition ==
    [][/\ last'.op \in {"bind", "unbind"} =>
            /\ last'.raised <=> current_sequence # <<>>
            /\ current_sequence' = current_sequence
            /\ last'.raised => mapping' = mapping
       /\ (last'.op = "bind" /\ ~last'.raised) =>
            /\ DOMAIN mapping' = (DOMAIN mapping) \cup {last'.source}
            /\ mapping'[last'.source] = last'.target
            /\ \A s \in (DOMAIN mapping) \ {last'.source} : mapping'[s] = mapping[s]
       /\ (last'.op = "unbind" /\ ~last'.raised) =>
            /\ DOMAIN mapping' = (DOMAIN mapping) \ {last'.source}
            /\ \A s \in DOMAIN mapping' : mapping'[s] = mapping[s]
            /\ last'.source \notin DOMAIN mapping => mapping' = mapping
      ]_vars

\* A bind was refused in the middle of a chord.
C4_Witness ==
    /\ last = Raised("bind")
    /\ current_sequence # <<>>
    /\ DOMAIN mapping # {}

\* The events call has given to on_event so far.
FedBy(call) ==
    IF call.at = "on_event"
    THEN Append([i \in 1..Len(call.events) |-> call.events[i].key],
                call.ret.target[Len(call.events) + 1])
    ELSE [i \in 1..Len(call.events) |-> call.events[i].key]

\* What the consumer of events and the default bindings see of a chord s typed from
\* an empty buffer: each key before the last is held back (the press returns
\* "pending, can continue", feeds no event and does not reach the default
\* bindings), and the press of the last key feeds one event, the key of the
\* target, and does not reach the default bindings.
ChordFeedsItsTarget(s) ==
    LET call == presses[Len(presses)]
    IN  /\ call.key = typed[Len(typed)].key
        /\ call.ret = typed[Len(typed)].ret
        /\ ~call.fell
        /\ call.at # "super"
        /\ \A i \in 1..Len(typed) : i < Len(s) => typed[i].ret = Pending(TRUE)
        /\ Len(typed) < Len(s) => (FedBy(call) = <<>> /\ call.at = "returned")
        /\ Len(typed) = Len(s) => FedBy(call) = <<mapping[s][1]>>

\* C5, as stated: a source bound to a target of one key, typed key by key through
\* App.press, feeds exactly one event, the target key, on its last key, and none of
\* its keys reaches the default bindings.
C5_AnyChordFeedsItsTarget ==
    \A s \in DOMAIN mapping :
        (Len(mapping[s]) = 1 /\ Typing(s)) => ChordFeedsItsTarget(s)

\* C5, amended: the same of a source no proper non-empty prefix of which is bound,
\* typed from an empty buffer.
C5_UnshadowedChordFeedsItsTarget ==
    \A s \in DOMAIN mapping :
        (Len(mapping[s]) = 1 /\ NoBoundProperPrefix(s) /\ Typing(s)) =>
            ChordFeedsItsTarget(s)

\* A chord of two keys has been typed and has fed the one key of its target, and
\* App.press has returned.
C5_Witness ==
    \E s \in DOMAIN mapping :
        /\ Len(s) = 2
        /\ mapping[s] = <<"q">>
        /\ NoBoundProperPrefix(s)
        /\ KeysOf(typed) = s
        /\ typed[1].ret = Pending(TRUE)
        /\ presses[Len(presses)].at = "returned"
        /\ FedBy(presses[Len(presses)]) = <<"q">>

\* C6: the keys of a matched target are fed in order, one event each; no key is fed
\* after an event that came back consumed, and feeding ends before the end of the
\* target only after such an event (so that a target none of whose events is
\* consumed is fed whole).
C6_FeedStopsOnceConsumed ==
    \A i \in 1..Len(presses) :
        presses[i].ret.kind = "matched" =>
            LET target == presses[i].ret.target
                events == presses[i].events
            IN  /\ Len(events) <= Len(target)
                /\ \A j \in 1..Len(events) : events[j].key = target[j]
                /\ \A j \in 1..Len(events) :
                        events[j].stopped =>
                            (j = Len(events) /\ presses[i].at = "returned")
                /\ (presses[i].at = "returned" /\ Len(events) < Len(target)) =>
                    /\ events # <<>>
                    /\ events[Len(events)].stopped

\* The buffer is emptied by some run of at most n presses.
RECURSIVE CanEmpty(_, _)
CanEmpty(cur, n) ==
    \/ cur = <<>>
    \/ /\ n > 0
       /\ \E key \in Keys : CanEmpty(KeyMap_press(mapping, cur, key).seq, n - 1)

\* C20: whatever was bound, unbound and pressed, with or without success, a
\* buffer that is not empty is a proper prefix of a bound source and is no bound
\* source itself, so it is shorter than the longest bound source; and some run of
\* presses empties it, after which bind and unbind are allowed.
C20_PendingIsProperPrefix ==
    current_sequence # <<>> =>
        /\ \E source \in DOMAIN mapping : IsProperPrefix(current_sequence, source)
        /\ current_sequence \notin DOMAIN mapping
        /\ \A source \in DOMAIN mapping :
                (\A other \in DOMAIN mapping : Len(other) <= Len(source)) =>
                    Len(current_sequence) < Len(source)
        /\ CanEmpty(current_sequence, MaxSeqLen)

\* A bind was refused while the first key of a bound chord is in the buffer.
C20_Witness ==
    /\ current_sequence = <<"Z">>
    /\ last = Raised("bind")
    /\ <<"Z", "Z">> \in DOMAIN mapping
    /\ Cardinality(DOMAIN mapping) = 2

(***************************************************************************)
(* Properties of the server supervisor                                     *)
(***************************************************************************)

\* The current or last activation did step.
Did(step) == \E i \in 1..Len(steps) : steps[i] = step

\* C7: an activation that finds no rclone, none being cached, ends at the yield
\* with the label "Server: Cannot find rclone binary.", spawns nothing, leaves the
\* cached path empty and raises nothing, from the first activation as from one
\* after the same outcome; the activation that finds the binary caches its path
\* and goes on to spawn it.
C7_NotFoundThenRetried ==
    /\ [](gen = "yield_not_found" =>
            /\ server_label = LabelNotFound
            /\ rclone_path = ""
            /\ procs = <<>>
            /\ server_raised = "")
    /\ [][(gen \in LoopTop /\ rclone_path = "") =>
            /\ steps'[1].ev = "which"
            /\ server_raised' = ""
            /\ IF steps'[1] = Which(None)
               THEN /\ gen' = "yield_not_found"
                    /\ server_label' = LabelNotFound
                    /\ rclone_path' = ""
                    /\ procs' = procs
               ELSE /\ steps'[1].arg \in Paths
                    /\ rclone_path' = steps'[1].arg
                    /\ server_label' = LabelStarting
                    /\ gen' = "await_spawn"]_vars

\* An activation found no binary.
C7_Witness ==
    /\ gen = "yield_not_found"
    /\ steps = <<Which(None), SetLabel(LabelNotFound)>>
    /\ server_label = LabelNotFound
    /\ procs = <<>>

\* C8, as stated: after a spawn whose first stderr line has the marker the activation ends
\* with "Server: Started."; the next activation sets "Server: Stopping.", kills the
\* process, then sets "Server: Stopped.", in that order, with one kill. Activations
\* that succeed go from stopped to running and from running to stopped in turn, and
\* every process is killed exactly once before the next is spawned.
C8_StartedThenStopped ==
    /\ []((gen = "yield_running" /\ Did(ReadLine("marker"))) =>
            server_label = LabelStarted)
    /\ [](gen = "yield_stopped" =>
            /\ server_label = LabelStopped
            /\ steps = <<SetLabel(LabelStopping), Kill, SetLabel(LabelStopped)>>)
    /\ [](\A i \in 1..Len(procs) :
            procs[i] = IF i = Len(procs) /\ gen \in {"await_readline", "yield_running"}
                       THEN 0 ELSE 1)
    /\ [][/\ gen = "yield_running" =>
                /\ gen' = "yield_stopped"
                /\ Len(procs') = Len(procs)
                /\ procs'[Len(procs)] = procs[Len(procs)] + 1
          /\ gen = "yield_stopped" => (gen' = "await_spawn" /\ procs' = procs)
          /\ gen = "await_spawn" =>
                \/ gen' = "await_readline" /\ procs' = Append(procs, 0)
                \/ gen' = Finished /\ procs' = procs
          /\ gen = "await_readline" => gen' \in {"yield_running", Finished}]_vars

\* C9: a failure of the spawn or of the read of the first line is raised to the
\* caller and leaves the supervisor idle, at a place the next activation starts
\* from the top of the loop; no activation is refused.
C9_FailureReturnsToIdle ==
    /\ server_raised \in {"spawn failed", "readline failed"} => gen \in LoopTop
    /\ server_raised # "StopAsyncIteration"

\* C13: a process is killed at most once; outside the stretch from the return of
\* the spawn to the finally block every process spawned has been killed, inside
\* it all but the last; every step that leaves the stretch (the next activation,
\* a failed read of the first line, the close of the generator at the end of the
\* session) kills the last process; and nothing is killed at any other step, so
\* never when no process was spawned.
C13_EverySpawnKilledOnce ==
    /\ [](\A i \in 1..Len(procs) :
            /\ procs[i] <= 1
            /\ procs[i] = 0 => (i = Len(procs) /\ gen \in Holding))
    /\ [](gen \in Holding => (procs # <<>> /\ procs[Len(procs)] = 0))
    /\ [](Did(Kill) => procs # <<>>)
    /\ [][/\ (gen \in Holding /\ gen' \notin Holding) =>
                /\ procs' = Killed(procs)
                /\ \E i \in 1..Len(steps') : steps'[i] = Kill
          /\ (\E i \in 1..Len(procs) : procs'[i] # procs[i]) =>
                (gen \in Holding /\ gen' \notin Holding)
          /\ Len(procs') >= Len(procs)]_vars

\* One process was killed by the next activation, the next by the close of the
\* generator at the yield of line 160.
C13_Witness ==
    /\ gen = Finished
    /\ server_raised = ""
    /\ steps = <<SetLabel(LabelStopping), Kill>>
    /\ procs = <<1, 1>>

\* C14: an activation that arrives while an earlier one waits in the spawn or in
\* the read of the first line is refused and spawns nothing; at most one process
\* is spawned and not killed, and the spawns exceed the kills by one at most.
C14_NoSecondProcess ==
    /\ [](Cardinality({i \in 1..Len(procs) : procs[i] = 0}) <= 1)
    /\ [](Cardinality({i \in 1..Len(procs) : procs[i] = 0})
            + Cardinality({i \in 1..Len(procs) : procs[i] = 1}) = Len(procs))
    /\ [][(server_raised' = "RuntimeError" /\ server_raised # "RuntimeError") =>
                /\ gen \in InFlight
                /\ UNCHANGED <<gen, procs, steps, server_label, rclone_path>>]_vars
    /\ [][(gen \in InFlight /\ Len(procs') > Len(procs)) =>
                /\ gen = "await_spawn"
                /\ gen' = "await_readline"
                /\ procs' = Append(procs, 0)
                /\ \A i \in 1..Len(procs) : procs[i] = 1]_vars

\* The second activation was refused while the first waits for the first line of
\* the second process.
C14_Witness ==
    /\ gen = "await_readline"
    /\ server_raised = "RuntimeError"
    /\ procs = <<1, 0>>

\* The labels an activation has set, in order.
LabelsSet == LET set == SelectSeq(steps, LAMBDA step : step.ev = "label")
             IN  [i \in 1..Len(set) |-> set[i].arg]

\* C15 as stated: an activation that has reached its yield has made exactly one
\* status step.
C15_OneStatusStepPerActivation ==
    gen \in {"yield_not_found", "yield_running", "yield_stopped"} => Len(LabelsSet) = 1

\* C15: an activation runs the generator from the yield it is suspended at to the
\* next yield: from the top of the loop to the yield of line 141 after the one
\* label "Cannot find rclone binary.", or through "Starting." to the yield of line
\* 160 after "Started." or "Started but may be incompatible."; from the yield of
\* line 160 through "Stopping." to the yield of line 167 after "Stopped.", or to
\* the end of the generator after "Stopping." alone when kill() raises.
C15_ActivationRunsToNextYield ==
    /\ [](gen = "yield_not_found" => LabelsSet = <<LabelNotFound>>)
    /\ [](gen \in InFlight => LabelsSet = <<LabelStarting>>)
    /\ [](gen = "yield_running" =>
            /\ LabelsSet \in {<<LabelStarting, LabelStarted>>,
                               <<LabelStarting, LabelIncompatible>>}
            /\ server_label = LabelsSet[2])
    /\ [](gen = "yield_stopped" =>
            /\ LabelsSet = <<LabelStopping, LabelStopped>>
            /\ server_label = LabelStopped)
    /\ [][/\ gen \in LoopTop => gen' \in {"yield_not_found", "await_spawn"}
          /\ gen = "await_spawn" => gen' \in {"await_readline", Finished}
          /\ gen = "await_readline" => gen' \in {"yield_running", Finished}
          /\ gen = "yield_running" =>
                \/ gen' = "yield_stopped"
                \/ /\ gen' = Finished
                   /\ server_raised' = ProcessLookupError
                   /\ server_label' = LabelStopping
                   /\ steps' = <<SetLabel(LabelStopping), Kill>>]_vars

\* An activation went from stopped to running, setting two labels.
C15_Witness ==
    /\ gen = "yield_running"
    /\ procs = <<1, 0>>
    /\ LabelsSet = <<LabelStarting, LabelStarted>>

\* How often shutil.which was called in the current or last activation.
WhichCalls(s) == Cardinality({i \in 1..Len(s) : s[i].ev = "which"})

\* C16: a cached path is never cleared nor changed, and once there is one
\* shutil.which is not called again; the cache is written only by the activation
\* whose shutil.which found the binary, with what it found, and the label of the
\* path node changes at that step and at no other.
C16_PathCachedOnce ==
    /\ [](rclone_path = "" <=> rclone_path_label = <<"rclone path: ", "...">>)
    /\ [](rclone_path # "" => rclone_path_label = <<"rclone path: ", rclone_path>>)
    /\ [][/\ rclone_path # "" =>
                /\ rclone_path' = rclone_path
                /\ rclone_path_label' = rclone_path_label
                /\ WhichCalls(steps') <= WhichCalls(steps)
          /\ (rclone_path' # rclone_path \/ rclone_path_label' # rclone_path_label) =>
                /\ rclone_path = ""
                /\ rclone_path' \in Paths
                /\ steps'[1] = Which(rclone_path')
                /\ rclone_path_label' = <<"rclone path: ", rclone_path'>>
          /\ (steps' # steps /\ steps' # <<>> /\ steps'[1] = Which(None)) =>
                /\ rclone_path' = ""
                /\ rclone_path_label' = rclone_path_label]_vars

\* With the path cached by the first activation, the second server is started
\* without a call of shutil.which, after a start that read no marker.
C16_Witness ==
    /\ gen = "yield_running"
    /\ rclone_path \in Paths
    /\ procs = <<1, 1, 0>>
    /\ WhichCalls(steps) = 0
    /\ server_label = LabelIncompatible

\* C17: a first line without the marker and the end of the stream both end the
\* activation at the yield of line 160 with "Server: Started but may be
\* incompatible.", nothing raised and the process held; and the next activation
\* sets "Server: Stopping." and calls kill() on that process once, whatever the
\* line was, and then either ends at "Server: Stopped." or, kill() raising, ends
\* the generator.
C17_NoMarkerAndEofAlike ==
    /\ []((gen = "yield_running" /\ (Did(ReadLine("other")) \/ Did(ReadLine("eof")))) =>
            /\ server_label = LabelIncompatible
            /\ server_raised = ""
            /\ procs[Len(procs)] = 0)
    /\ [][gen = "await_readline" =>
            \/ /\ gen' = "yield_running"
               /\ steps'[Len(steps') - 1] \in {ReadLine(line) : line \in Lines}
               /\ server_raised' = ""
            \/ /\ gen' = Finished
               /\ \A line \in Lines : \A i \in 1..Len(steps') : steps'[i] # ReadLine(line)]_vars
    /\ [][gen = "yield_running" =>
            /\ procs' = Killed(procs)
            /\ procs'[Len(procs')] = 1
            /\ SubSeq(steps', 1, 2) = <<SetLabel(LabelStopping), Kill>>
            /\ \A i \in 3..Len(steps') : steps'[i] # Kill
            /\ \/ /\ gen' = "yield_stopped"
                  /\ server_label' = LabelStopped
                  /\ server_raised' = ""
               \/ /\ gen' = Finished
                  /\ server_label' = LabelStopping
                  /\ server_raised' = ProcessLookupError]_vars

\* The stream of the second process ended before a line.
C17_Witness ==
    /\ gen = "yield_running"
    /\ Did(ReadLine("eof"))
    /\ procs = <<1, 0>>
    /\ server_label = LabelIncompatible
    /\ server_raised = ""

(***************************************************************************)
(* Properties of the tree                                                  *)
(***************************************************************************)

\* C10: remove of the root id raises and the root stays in nodes; remove of an id
\* that is not in nodes raises KeyError; add under an id that is not in nodes
\* raises; and a call that raises leaves nodes, the children of every node and the
\* id counter as they were.
C10_FailedCallsChangeNothing ==
    /\ [](RootId \in nodes)
    /\ [][/\ (tree_last'.op = "remove" /\ tree_last'.arg = RootId) =>
                tree_last'.raised = "AssertionError"
          /\ (tree_last'.op = "remove" /\ tree_last'.arg # RootId
                /\ tree_last'.arg \notin nodes) =>
                tree_last'.raised = "KeyError"
          /\ (tree_last'.op = "add" /\ tree_last'.arg \notin nodes) =>
                tree_last'.raised = "KeyError"
          /\ tree_last'.raised # "" =>
                UNCHANGED <<nodes, id, parent, children, tree_children>>]_vars

\* A node that was added and removed is removed again, beside a node still there.
C10_Witness ==
    /\ tree_last.op = "remove"
    /\ tree_last.raised = "KeyError"
    /\ tree_last.arg \in DOMAIN parent
    /\ tree_last.arg \notin nodes
    /\ nodes # {RootId}

\* C11: add appends the id it gives, one more than the last, to the children of
\* the parent and to the children of the parent's rendering tree; the remove of
\* that id that follows takes the last entry off both, which leaves them as they
\* were before the add; and the id counter never goes down, so that no later add
\* gives an id that was given before.
C11_AddThenRemoveRestores ==
    /\ [](nodes \subseteq 0..id /\ DOMAIN children = 0..id)
    /\ [][id' >= id]_vars
    /\ [][(tree_last'.op = "add" /\ tree_last'.raised = "" /\ id' # id) =>
            /\ id' = id + 1
            /\ children'[tree_last'.arg] = Append(children[tree_last'.arg], id')
            /\ tree_children'[tree_last'.arg] =
                    Append(tree_children[tree_last'.arg], id')]_vars
    /\ [][(tree_last.op = "add" /\ tree_last.raised = ""
                /\ tree_last' = TreeCall("remove", id, "")) =>
            /\ children'[tree_last.arg] =
                    SubSeq(children[tree_last.arg], 1, Len(children[tree_last.arg]) - 1)
            /\ tree_children'[tree_last.arg] =
                    SubSeq(tree_children[tree_last.arg], 1,
                           Len(tree_children[tree_last.arg]) - 1)
            /\ id' = id
            /\ id \notin nodes']_vars

\* The third child of a node was added and removed, the first two are as before.
C11_Witness ==
    /\ tree_last = TreeCall("remove", id, "")
    /\ id = 3
    /\ children[parent[id]] = <<1, 2>>
    /\ tree_children[parent[id]] = <<1, 2>>

\* C12 as stated: the directory of a node is listed at most once, whatever is
\* clicked and removed.
C12_PopulatedAtMostOnce ==
    \A n \in DOMAIN listings : listings[n] <= 1

\* How often x is in list.
Count(list, x) == Cardinality({i \in 1..Len(list) : list[i] = x})

\* The nodes up from n, k parents far.
RECURSIVE Ancestors(_, _)
Ancestors(n, k) ==
    IF k = 0 \/ n \notin DOMAIN parent
    THEN {}
    ELSE {parent[n]} \cup Ancestors(parent[n], k - 1)

\* C18: add gives an id no node has had; every node in nodes but the root has a
\* parent, is once among the children of that parent and not among those of any
\* other node; a node that was removed is among the children of no node; and no
\* node is above itself.
C18_StoreWellFormed ==
    /\ [][id' # id => (id' \notin nodes /\ id' \notin DOMAIN children)]_vars
    /\ [](\A n \in nodes \ {RootId} :
            /\ n \in DOMAIN parent
            /\ Count(children[parent[n]], n) = 1
            /\ \A m \in (DOMAIN children) \ {parent[n]} : Count(children[m], n) = 0)
    /\ [](\A r \in (DOMAIN children) \ nodes :
            \A m \in DOMAIN children : Count(children[m], r) = 0)
    /\ [](\A n \in DOMAIN children : n \notin Ancestors(n, id + 1))

\* A node has been removed from under the root, its child and its sibling are in
\* nodes.
C18_Witness ==
    /\ 1 \notin nodes
    /\ nodes = {RootId, 2, 3}
    /\ parent = <<RootId, RootId, 1>>
    /\ children[RootId] = <<2>>
    /\ children[1] = <<3>>

\* The nodes below n, through the children lists.
RECURSIVE Below(_, _)
Below(n, lists) ==
    LET kids == {lists[n][i] : i \in 1..Len(lists[n])}
    IN  kids \cup UNION {Below(kid, lists) : kid \in kids}

\* C19: a remove that returns takes the one node out of nodes and out of the
\* children of its parent, the other children keeping their order, and changes
\* the children of no other node; the nodes below it stay in nodes and are not
\* below the root; and remove of any node in nodes but the root, and add under
\* any node in nodes, return, for a node below a removed one as for any other.
C19_RemoveLeavesDescendants ==
    /\ [][(tree_last'.op = "remove" /\ tree_last'.raised = "") =>
            LET n == tree_last'.arg
            IN  /\ nodes' = nodes \ {n}
                /\ children'[parent[n]] =
                        SelectSeq(children[parent[n]], LAMBDA c : c # n)
                /\ \A m \in (DOMAIN children) \ {parent[n]} :
                        children'[m] = children[m]
                /\ Below(n, children') = Below(n, children)
                /\ Below(n, children') \subseteq nodes'
                /\ Below(n, children') \cap Below(RootId, children') = {}]_vars
    /\ [][/\ (tree_last'.op = "remove" /\ tree_last'.arg \in nodes \ {RootId}) =>
                tree_last'.raised = ""
          /\ (tree_last'.op = "add" /\ tree_last'.arg \in nodes) =>
                tree_last'.raised = ""]_vars

\* The second of three children of the root was removed while it had a child, and
\* that child has been removed in its turn.
C19_Witness ==
    /\ tree_last = TreeCall("remove", 4, "")
    /\ parent[4] = 2
    /\ 2 \notin nodes
    /\ children[RootId] = <<1, 3>>
    /\ children[2] = <<>>

(***************************************************************************)
(* The specifications                                                      *)
(***************************************************************************)

Init == InitKeys /\ InitServer /\ InitTree

SpecKeys == Init /\ [][NextKeys]_vars

SpecApp == Init /\ [][NextApp]_vars

SpecServer == Init /\ [][NextServer]_vars

SpecSession == Init /\ [][NextSession]_vars

SpecTree == Init /\ [][NextTree]_vars

SpecDirectoryTree == Init /\ [][NextDirectoryTree]_vars

====
